---- MODULE Spec2Model ----
(***************************************************************************)
(* Model of the linguis document reader: the page viewer (DocumentViewer / *)
(* PageWidget), the render pipeline (DocumentViewModel.request_page and    *)
(* its asyncio tasks on a two-worker executor) and the zoom coordinator    *)
(* (ZoomViewModel with its single-shot debounce QTimer).                   *)
(*                                                                         *)
(* All handlers run on the one Qt/asyncio thread, so each handler is one   *)
(* atomic action.  Signals are direct connections: a handler's emit runs   *)
(* the connected slots inside the same action.                             *)
(***************************************************************************)
EXTENDS Integers, Sequences, FiniteSets, TLC

(* ---------------- program constants ---------------- *)
LOOKAHEAD_PAGES == 3
MAX_CACHED_PAGES == 12
MIN_ZOOM == 50
MAX_ZOOM == 400
DEFAULT_ZOOM == 100
ZOOM_STEP == 10
DEBOUNCE_MS == 300
MAX_WORKERS == 2
RERENDER_TOLERANCE == 5
SPACE_THRESHOLD == 4
LINE_THRESHOLD == 5
MAGNETIC_THRESHOLD == 15
PRESET_LEVELS == {25, 50, 75, 100, 125, 150, 200, 300, 400}

(* ---------------- bounds of the model ---------------- *)
\* scheduling specification (Spec): pages of the document, request_page tasks
\* that may exist at the same time
NumPages == 2
MaxJobs == 2
\* rendering specification (SpecRender): the same, smaller
RenderPages == 1
RenderJobs == 1
\* clock steps per debounce interval (SpecZoom)
TicksPerDebounce == 2
\* pages of the document of the sequential-load specification (SpecSeq)
SeqPages == 15
\* pages of the document of the cache specification (SpecCache)
CachePages == 13
\* scrolling specification (SpecScroll): pages of the document, request_page tasks
\* that may exist at the same time
ScrollPages == 5
ScrollJobs == 4
\* ordering specification (SpecOrder): pages of the document, and how many of its
\* last pages the viewport is scrolled over
OrderPages == 34
OrderTail == 4
\* overlay specification (SpecOverlay): the pointer moves over the pixels
\* <<x, y * RowGap>> for x in 0..MaxX and y in 0..MaxY, the page has NumGlyphs
\* glyphs, the platform's QApplication.startDragDistance(), and the signals one
\* gesture may emit
MaxX == 4
MaxY == 1
RowGap == 20
\* pixels from the top of a page to the top of the next, and the scroll bar's maximum
PageStride == 1000
ScrollMaximum == 100000
NumGlyphs == 3
StartDragDistance == 2
MaxSignals == 4
\* text specification (SpecText): characters of the page
TextLen == 11
\* word specification (SpecWord): glyphs of the generated pages
WordLen == 3
\* hit-test specification (SpecHit): the pointer is pressed at the pixels
\* <<x * HitStep, y * HitStep>> for x in 0..HitMaxX and y in 0..HitMaxY
HitStep == 5
HitMaxX == 12
HitMaxY == 8
\* eviction specification (SpecEvict): pages of the document, request_page tasks
\* that may exist at the same time
EvictPages == 17
EvictJobs == 7
\* cancellation specification (SpecCancel): pages of the document, request_page
\* tasks that may exist at the same time
CancelPages == 5
CancelJobs == 5
\* shutdown specification (SpecClose): pages of the document, request_page tasks
\* that may exist at the same time
ClosePages == 1
CloseJobs == 2
\* hyphenation specification (SpecHyphen): glyphs of the page
HyphenLen == 4
\* liveness specification (SpecLive): pages of the document, request_page tasks
\* that may exist at the same time
LivePages == 5
LiveJobs == 5
\* selection specification (SpecSelect): pages of the document, and the highest
\* glyph index an overlay reports
SelectPages == 2
SelectMax == 4
\* wheel specification (SpecWheel): deferred scrolls that may be pending at a
\* time, and the highest scroll value a wheel step may ask for
MaxPending == 2
WheelScrollLimit == 60
\* zoom levels around 100 a page's image and the display can have (SpecNeeds)
NeedsSpread == 7
\* window specification (SpecWindow): documents of 1..WindowPages pages, a
\* viewport showing pages a..b with b - a <= MaxSpan
WindowPages == 8
MaxSpan == 1

TickMs == DEBOUNCE_MS \div TicksPerDebounce

\* the characters of the document's page 0, of which a specification takes a prefix
SampleText == <<"c", "o", "-", "\n", "o", "p", " ", "a", "-", "\n", "1", "x", "y", "z", "w", "v">>

\* QRectF(left, top, width, height), in document units
Box(left, top, width, height) ==
    [left |-> left, top |-> top, width |-> width, height |-> height]

\* the boxes of the first n of these characters: side by side on one line, each
\* one unit wide and high, the first at x = 1
SampleBoxes(n) == [k \in 1..n |-> Box(k, 0, 1, 1)]

\* zoom levels the scheduling specifications feed to set_zoom / set_fit_width
SchedLevels == {100, 110}

VARIABLES
    pages,                 \* DocumentViewer._pages: index -> PageWidget fields
    total_pages,           \* DocumentViewer._total_pages
    loaded_pages,          \* DocumentViewer._loaded_pages (OrderedDict keys, oldest first)
    current_render_range,  \* DocumentViewer._current_render_range
    display_zoom,          \* DocumentViewer._display_zoom
    committed_zoom,        \* DocumentViewer._committed_zoom
    visible,               \* <<min_visible, max_visible>> the geometry yields at the scroll position
    check_scheduled,       \* a QTimer.singleShot(.., _check_visibility) is pending
    jobs,                  \* request_page tasks, in creation order
    zoom_level,            \* ZoomViewModel._zoom_level
    zoom_mode,             \* ZoomViewModel._zoom_mode
    timer_left,            \* ZoomViewModel._debounce_timer: ms to expiry, -1 when stopped
    since_preview,          \* history: ms since the last preview event (capped at DEBOUNCE_MS)
    uncommitted,           \* history: a preview event was emitted and no commit event since
    zoom_call,             \* history: the last call of the zoom view model: "preview" for
                           \* set_zoom(.., False), "immediate" for set_zoom(.., True),
                           \* "fit" for set_fit_width / set_fit_page, "none" before any
    loads,                 \* history: documents loaded so far
    closed,                \* DocumentViewModel.close was called: the executor is shut down
    load_log,              \* history: pages given an image by the sequential loader
    evict_log,             \* history: pages evicted by the cache, in eviction order
    overlay,               \* TextOverlay of page 0: _display_zoom, _drag_start_pos,
                           \* _pending_start_idx, _is_dragging
    left_down,             \* the left mouse button is held (event.buttons())
    g_open,                \* history: a left press was delivered and no release since
    g_pos,                 \* history: the point of the last left press
    g_glyph,               \* history: the glyph hit by the last left press, NoIdx if none
    g_far,                 \* history: a move of this gesture went beyond the drag distance
    g_log,                 \* history: the overlay's signals since the last left press
    characters,            \* SelectionModel._characters of page 0: the char of each CharMetadata
    bboxes,                \* the same: the bbox of each CharMetadata (also TextOverlay._bboxes)
    selection,             \* SelectionViewModel: _active_page, _start_idx, _end_idx
    text_call,             \* history: <<start_idx, end_idx, result>> of the last get_text_range call
    selection_text,        \* history: the text of the last selection_changed signal
    scroll,                \* the vertical scroll bar's value
    scroll_tasks           \* the QTimer.singleShot(0, ..) lambdas of _handle_scroll_zoom
                           \* not yet run, oldest first: new_scroll, and as history the
                           \* values it was computed from

viewer_vars == <<pages, total_pages, loaded_pages, current_render_range,
                 display_zoom, committed_zoom, visible, check_scheduled>>
zoom_vars == <<zoom_level, zoom_mode, timer_left, since_preview, uncommitted, zoom_call>>
hist_vars == <<loads, closed, load_log, evict_log>>
overlay_hist == <<left_down, g_open, g_pos, g_glyph, g_far, g_log>>
overlay_vars == <<overlay, left_down, g_open, g_pos, g_glyph, g_far, g_log>>
sel_vars == <<characters, bboxes, selection, text_call, selection_text>>
wheel_vars == <<scroll, scroll_tasks>>
ui_vars == <<overlay_vars, sel_vars, wheel_vars>>
vars == <<pages, total_pages, loaded_pages, current_render_range, display_zoom,
          committed_zoom, visible, check_scheduled, jobs, zoom_level, zoom_mode,
          timer_left, since_preview, uncommitted, zoom_call, loads, closed, load_log, evict_log,
          overlay, left_down, g_open, g_pos, g_glyph, g_far, g_log,
          characters, bboxes, selection, text_call, selection_text,
          scroll, scroll_tasks>>

(* ---------------- helpers ---------------- *)
Max(x, y) == IF x >= y THEN x ELSE y
Min(x, y) == IF x <= y THEN x ELSE y
Abs(x) == IF x >= 0 THEN x ELSE -x
Range(s) == {s[i] : i \in 1..Len(s)}
RemoveAt(s, k) == [i \in 1..(Len(s) - 1) |-> IF i < k THEN s[i] ELSE s[i + 1]]

(* ---------------- PageWidget ---------------- *)
\* PageWidget.__init__
NewPage == [is_loaded |-> FALSE, is_rendering |-> FALSE,
            render_zoom |-> 100, display_zoom |-> 100]

\* mutant: the image counts as rendered at the zoom the page is displayed at
SetImageAtDisplayZoom(pg, render_zoom) ==
    [pg EXCEPT !.is_loaded = TRUE, !.is_rendering = FALSE, !.render_zoom = pg.display_zoom]

\* PageWidget.set_image
SetImage(pg, render_zoom) ==
    [pg EXCEPT !.is_loaded = TRUE, !.is_rendering = FALSE, !.render_zoom = render_zoom]

\* mutant: only a page that holds an image takes the display zoom
SetDisplayZoomIfLoaded(pg, zoom) ==
    IF pg.is_loaded /\ zoom # pg.display_zoom THEN [pg EXCEPT !.display_zoom = zoom] ELSE pg

\* PageWidget.set_display_zoom
SetDisplayZoom(pg, zoom) ==
    IF zoom # pg.display_zoom THEN [pg EXCEPT !.display_zoom = zoom] ELSE pg

\* mutant: the tolerance itself already counts as a difference
NeedsRerenderAtTolerance(pg) ==
    pg.is_loaded /\ Abs(pg.display_zoom - pg.render_zoom) >= RERENDER_TOLERANCE

\* PageWidget.needs_rerender
NeedsRerender(pg) ==
    pg.is_loaded /\ Abs(pg.display_zoom - pg.render_zoom) > RERENDER_TOLERANCE

\* PageWidget.mark_rendering
MarkRendering(pg) == [pg EXCEPT !.is_rendering = TRUE]

\* PageWidget.unload_image
UnloadImage(pg) ==
    [pg EXCEPT !.is_loaded = FALSE, !.is_rendering = FALSE, !.render_zoom = 100]

(* ---------------- DocumentViewer: cache ---------------- *)
\* update_page_image: OrderedDict insert, or move_to_end when present
TouchLoaded(lp, p) ==
    IF p \in Range(lp)
    THEN Append(SelectSeq(lp, LAMBDA q : q # p), p)
    ELSE Append(lp, p)

\* mutant: evicts as soon as the cache is full (>= for >)
EvictCountWhenFull(lp) == Max(0, Len(lp) - MAX_CACHED_PAGES + 1)

\* _evict_old_pages: popitem(last=False) while len > MAX_CACHED_PAGES
EvictCount(lp) == Max(0, Len(lp) - MAX_CACHED_PAGES)
EvictedPages(lp) == SubSeq(lp, 1, EvictCount(lp))
EvictOldPages(lp) == SubSeq(lp, EvictCount(lp) + 1, Len(lp))

\* the page widgets after update_page_image(p, image, render_zoom)
PagesAfterImage(ps, lp, p, render_zoom) ==
    LET shown == [ps EXCEPT ![p] = SetImage(ps[p], render_zoom)]
        out == Range(EvictedPages(TouchLoaded(lp, p))) \cap DOMAIN ps
    IN [i \in DOMAIN ps |-> IF i \in out THEN UnloadImage(shown[i]) ELSE shown[i]]

\* DocumentViewer.update_page_image (slot of DocumentViewModel.page_rendered)
UpdatePageImage(p, render_zoom) ==
    IF p \in DOMAIN pages
    THEN /\ pages' = PagesAfterImage(pages, loaded_pages, p, render_zoom)
         /\ loaded_pages' = EvictOldPages(TouchLoaded(loaded_pages, p))
         /\ current_render_range' = current_render_range \ {p}
    ELSE UNCHANGED <<pages, loaded_pages, current_render_range>>

(* ---------------- DocumentViewer: zoom handlers ---------------- *)
\* mutant: a preview drops the images that no longer fit the zoom
PreviewPagesDropStale(ps, zoom) ==
    [i \in DOMAIN ps |->
        IF NeedsRerender(SetDisplayZoom(ps[i], zoom))
        THEN UnloadImage(SetDisplayZoom(ps[i], zoom))
        ELSE SetDisplayZoom(ps[i], zoom)]

\* handle_zoom_preview: every page widget takes the display zoom
PreviewPages(ps, zoom) == [i \in DOMAIN ps |-> SetDisplayZoom(ps[i], zoom)]

\* mutant: a commit unloads every page
CommitPagesUnloadAll(ps) == [i \in DOMAIN ps |-> UnloadImage(ps[i])]

\* handle_zoom_committed: loaded pages that need a re-render are unloaded
CommitPages(ps) ==
    [i \in DOMAIN ps |->
        IF ps[i].is_loaded /\ NeedsRerender(ps[i]) THEN UnloadImage(ps[i]) ELSE ps[i]]

\* MainWindow._handle_zoom_committed -> DocumentViewer.handle_zoom_committed,
\* applied to the page widgets ps the handler finds
HandleZoomCommitted(ps, zoom) ==
    /\ committed_zoom' = zoom
    /\ pages' = CommitPages(ps)
    /\ loaded_pages' = <<>>
    /\ current_render_range' = {}
    /\ check_scheduled' = TRUE

\* page.overlay.update_data(.., zoom) of handle_zoom_preview and of
\* update_overlay_data, for the overlay of page 0 if the document has one
OverlayAtZoom(ov, zoom) ==
    IF 0 \in DOMAIN pages THEN [ov EXCEPT !.display_zoom = zoom] ELSE ov

(* ---------------- DocumentViewModel: render tasks ---------------- *)
\* A job is one asyncio task of request_page(page, zoom):
\*   st = "new"   created by _handle_page_request, not yet run
\*   st = "run"   registered in _active_tasks, its render submitted to the executor
\*   st = "canc"  its render task was cancelled; the finally block has not run yet
\*   st = "done"  its render task returned; the finally block has not run yet
\* reg: _active_tasks[page] is this job's render task.
NewJob(p, zoom) == [page |-> p, zoom |-> zoom, st |-> "new", reg |-> FALSE]

\* keys of _active_tasks
ActiveTasks(js) == {js[k].page : k \in {i \in 1..Len(js) : js[i].reg}}

\* Task.cancel on the task registered for a page: a task that already ended is unaffected
CancelJob(j) == IF j.st = "run" THEN [j EXCEPT !.st = "canc"] ELSE j

\* DocumentViewModel.cancel_obsolete_renders
CancelObsoleteRenders(js, keep_indices) ==
    [k \in 1..Len(js) |->
        IF js[k].reg /\ js[k].page \notin keep_indices THEN CancelJob(js[k]) ELSE js[k]]

(* ---------------- DocumentViewer: visibility ---------------- *)
\* mutant: the lookahead is one page short below the viewport
RenderStartShort(min_visible) == Max(0, min_visible - LOOKAHEAD_PAGES + 1)

\* render_start .. render_end of _check_visibility
RenderStart(min_visible) == Max(0, min_visible - LOOKAHEAD_PAGES)
RenderEnd(max_visible, n) == Min(n - 1, max_visible + LOOKAHEAD_PAGES)
NewRenderRange(min_visible, max_visible, n) ==
    RenderStart(min_visible)..RenderEnd(max_visible, n)

\* the condition under which _check_visibility requests a page
ShouldRequest(pg) ==
    (~pg.is_loaded /\ ~pg.is_rendering) \/ NeedsRerender(pg)

PagesToRequest(ps, range) == {i \in range : ShouldRequest(ps[i])}

\* `for index in new_render_range` iterates a set of ints built by
\* set(range(..)): CPython keeps an int at slot hash & mask = index mod table size
\* and iterates the slots in order.  The table starts with 8 slots and, when an
\* added element fills 3/5 of it, is rebuilt with the least power of two above four
\* times the elements.  Consecutive indices never share a slot.
RECURSIVE TableFor(_, _)
TableFor(size, used) == IF size > 4 * used THEN size ELSE TableFor(2 * size, used)

RECURSIVE SetTableSize(_)
SetTableSize(n) ==
    IF n = 0 THEN 8
    ELSE LET prev == SetTableSize(n - 1)
         IN IF n * 5 >= (prev - 1) * 3 THEN TableFor(8, n) ELSE prev

SetSlot(idx, range) == idx % SetTableSize(Cardinality(range))

\* pages_to_request.sort(key=abs(idx - viewport_center)); the sort is stable, so
\* pages at equal distance stay in the order the set was iterated in.  Twice the
\* distance keeps it integral.
Distance2(idx, min_visible, max_visible) == Abs(2 * idx - (min_visible + max_visible))

RECURSIVE SortByDistance(_, _, _, _)
SortByDistance(S, range, min_visible, max_visible) ==
    IF S = {} THEN <<>>
    ELSE LET D(i) == Distance2(i, min_visible, max_visible)
             m == CHOOSE x \in S : \A y \in S :
                      D(x) < D(y) \/ (D(x) = D(y) /\ SetSlot(x, range) <= SetSlot(y, range))
         IN <<m>> \o SortByDistance(S \ {m}, range, min_visible, max_visible)

\* mutant: requests carry the preview zoom
RequestZoomDisplay == display_zoom

\* the zoom request_page_render is emitted with
RequestZoom == committed_zoom

\* DocumentViewer._check_visibility with visible indices a..b
CheckVisibility(a, b) ==
    IF a > b
    THEN UNCHANGED <<pages, current_render_range, jobs>>
    ELSE LET range == NewRenderRange(a, b, total_pages)
             req == PagesToRequest(pages, range)
             order == SortByDistance(req, range, a, b)
         IN /\ pages' = [i \in DOMAIN pages |->
                            IF i \in req THEN MarkRendering(pages[i]) ELSE pages[i]]
            /\ current_render_range' = range
            /\ jobs' = CancelObsoleteRenders(jobs, range)
                       \o [k \in 1..Len(order) |-> NewJob(order[k], RequestZoom)]

\* The geometry of the pages is not modelled: the pages a..b are in view when the
\* scroll bar rests at the top of page a, taken to be PageStride pixels per page
\* down
ScrollTop(a) == a * PageStride

\* scrollbar valueChanged -> _check_visibility; the geometry shows pages a..b
Scroll(a, b) ==
    /\ 0 <= a /\ a <= b /\ b < total_pages /\ b - a <= MaxSpan
    /\ visible' = <<a, b>>
    /\ scroll' = ScrollTop(a)
    /\ CheckVisibility(a, b)
    /\ UNCHANGED <<total_pages, loaded_pages, display_zoom, committed_zoom, check_scheduled>>
    /\ UNCHANGED zoom_vars
    /\ UNCHANGED <<hist_vars, overlay_vars, sel_vars, scroll_tasks>>

\* QTimer.singleShot(.., self._check_visibility) of load_document_layout (100 ms)
\* or of handle_zoom_committed (50 ms) fires.  Several pending single shots are
\* kept as one: the recompute of a further one is the recompute of Scroll at the
\* position the scroll bar holds.
TimerCheck ==
    /\ check_scheduled
    /\ check_scheduled' = FALSE
    /\ CheckVisibility(visible[1], visible[2])
    /\ UNCHANGED <<total_pages, loaded_pages, display_zoom, committed_zoom, visible>>
    /\ UNCHANGED zoom_vars
    /\ UNCHANGED <<hist_vars, ui_vars>>

\* DocumentViewModel.load_document -> MainWindow._handle_document_loaded ->
\* DocumentViewer.load_document_layout, for a document of n pages.  main() calls
\* load_file once, right after MainWindow() and before the event loop runs, and
\* nothing else does: the document is loaded once, into the viewer as constructed,
\* and shown from the top.
AtStartup ==
    /\ loads = 0
    /\ zoom_level = DEFAULT_ZOOM /\ zoom_mode = "manual"
    /\ display_zoom = 100 /\ committed_zoom = 100
    /\ timer_left = -1 /\ ~uncommitted /\ ~check_scheduled
    /\ zoom_call = "none"

LoadDocument(n) ==
    /\ AtStartup
    /\ loads' = loads + 1
    /\ pages' = [i \in 0..(n - 1) |-> NewPage]
    /\ loaded_pages' = <<>>
    /\ total_pages' = n
    /\ \E a \in 0..(n - 1), b \in 0..(n - 1) :
          /\ a <= b /\ b - a <= MaxSpan
          /\ a = 0
          /\ visible' = <<a, b>>
    /\ check_scheduled' = TRUE
    /\ UNCHANGED <<current_render_range, display_zoom, committed_zoom, jobs>>
    /\ UNCHANGED zoom_vars
    /\ characters' = SubSeq(SampleText, 1, NumGlyphs)
    /\ bboxes' = SampleBoxes(NumGlyphs)
    /\ UNCHANGED <<closed, load_log, evict_log, overlay_vars, selection, text_call, selection_text>>
    /\ UNCHANGED wheel_vars

(* ---------------- DocumentViewModel.request_page ---------------- *)
\* jobs whose render the executor's MAX_WORKERS threads can be running: the first
\* MAX_WORKERS submitted and not cancelled
RunIdx(js) == {i \in 1..Len(js) : js[i].st = "run"}
Workers(js) == {k \in RunIdx(js) : Cardinality({i \in RunIdx(js) : i < k}) < MAX_WORKERS}

\* del self._active_tasks[page_index] of the finally block
Unregister(js, p) ==
    [k \in 1..Len(js) |-> IF js[k].page = p THEN [js[k] EXCEPT !.reg = FALSE] ELSE js[k]]

\* loop.run_in_executor of _render_page_internal: the render runs on a thread of
\* the executor; the executor raises once it is shut down, which the except
\* clause takes as a failed render
Submitted == IF closed THEN "done" ELSE "run"

\* request_page up to its await: cancel the task registered for the page, create
\* the render task and register it.  asyncio runs new tasks in creation order.
StartRequest ==
    /\ \E k \in 1..Len(jobs) :
          /\ jobs[k].st = "new"
          /\ \A i \in 1..(k - 1) : jobs[i].st # "new"
          /\ jobs' = [i \in 1..Len(jobs) |->
                        IF i = k THEN [jobs[i] EXCEPT !.st = Submitted, !.reg = TRUE]
                        ELSE IF jobs[i].reg /\ jobs[i].page = jobs[k].page
                             THEN [CancelJob(jobs[i]) EXCEPT !.reg = FALSE]
                             ELSE jobs[i]]
    /\ UNCHANGED viewer_vars
    /\ UNCHANGED zoom_vars
    /\ UNCHANGED <<hist_vars, ui_vars>>

\* _render_page_internal: the executor returned an image; page_rendered is emitted
RenderDone(k) ==
    /\ k \in Workers(jobs)
    /\ jobs' = [jobs EXCEPT ![k].st = "done"]
    /\ UpdatePageImage(jobs[k].page, jobs[k].zoom)
    /\ UNCHANGED <<total_pages, display_zoom, committed_zoom, visible, check_scheduled>>
    /\ UNCHANGED zoom_vars
    /\ UNCHANGED <<hist_vars, ui_vars>>

\* _render_page_internal: PdfParser.render_page returned None (it failed)
RenderFailed(k) ==
    /\ k \in Workers(jobs)
    /\ jobs' = [jobs EXCEPT ![k].st = "done"]
    /\ UNCHANGED viewer_vars
    /\ UNCHANGED zoom_vars
    /\ UNCHANGED <<hist_vars, ui_vars>>

\* request_page after its await (the task ended or was cancelled): the finally block
FinishRequest(k) ==
    /\ k \in 1..Len(jobs)
    /\ jobs[k].st \in {"done", "canc"}
    /\ jobs' = RemoveAt(Unregister(jobs, jobs[k].page), k)
    /\ UNCHANGED viewer_vars
    /\ UNCHANGED zoom_vars
    /\ UNCHANGED <<hist_vars, ui_vars>>

\* `for task in self._active_tasks.values(): task.cancel()` of close
CancelActiveTasks(js) ==
    [k \in 1..Len(js) |-> IF js[k].reg THEN CancelJob(js[k]) ELSE js[k]]

\* DocumentViewModel.close: the registered tasks are cancelled and the executor is
\* shut down without waiting
Close ==
    /\ ~closed
    /\ closed' = TRUE
    /\ jobs' = CancelActiveTasks(jobs)
    /\ UNCHANGED viewer_vars
    /\ UNCHANGED zoom_vars
    /\ UNCHANGED <<loads, load_log, evict_log, ui_vars>>

(* ---------------- ZoomViewModel ---------------- *)
\* mutant: the lower limit of calculate_fit_zoom instead of MIN_ZOOM
ClampFromFitLimit(level) == Max(25, Min(MAX_ZOOM, level))

\* max(self.MIN_ZOOM, min(self.MAX_ZOOM, level))
Clamp(level) == Max(MIN_ZOOM, Min(MAX_ZOOM, level))

\* mutant: the debounce timer is left as it is
LeaveTimer(t) == t

\* _debounce_timer.stop(), the timer holding t
StopTimer(t) == -1

\* mutant: a running timer is left to run
StartTimerIfStopped(t) == IF t >= 0 THEN t ELSE DEBOUNCE_MS

\* _debounce_timer.stop(); _debounce_timer.start(DEBOUNCE_MS), the timer holding t
RestartTimer(t) == DEBOUNCE_MS

\* ZoomViewModel.set_zoom, all but the scroll bar
SetZoomCall(level, immediate_commit) ==
    LET lv == Clamp(level) IN
    /\ zoom_call' = IF immediate_commit THEN "immediate" ELSE "preview"
    /\ IF lv # zoom_level
       THEN /\ zoom_level' = lv
            /\ zoom_mode' = "manual"
            /\ display_zoom' = lv
            /\ since_preview' = 0
            /\ IF immediate_commit
               THEN /\ timer_left' = -1
                    /\ HandleZoomCommitted(PreviewPages(pages, lv), lv)
                    /\ uncommitted' = FALSE
               ELSE /\ timer_left' = RestartTimer(timer_left)
                    /\ pages' = PreviewPages(pages, lv)
                    /\ uncommitted' = TRUE
                    /\ UNCHANGED <<committed_zoom, loaded_pages, current_render_range,
                                   check_scheduled>>
            /\ overlay' = OverlayAtZoom(overlay, lv)
            /\ UNCHANGED <<total_pages, visible, jobs>>
            /\ UNCHANGED <<hist_vars, overlay_hist, sel_vars>>
       ELSE UNCHANGED <<viewer_vars, jobs, zoom_level, zoom_mode, timer_left, since_preview,
                        uncommitted, hist_vars, overlay_vars, sel_vars>>

\* ZoomViewModel.set_zoom, called by the toolbar or a shortcut
SetZoom(level, immediate_commit) ==
    /\ SetZoomCall(level, immediate_commit)
    /\ UNCHANGED wheel_vars

\* mutant: the fit modes commit without a preview event
SetFitWithoutPreview(mode, calculated_zoom) ==
    LET lv == Clamp(calculated_zoom) IN
    /\ zoom_call' = "fit"
    /\ zoom_mode' = mode
    /\ zoom_level' = lv
    /\ timer_left' = StopTimer(timer_left)
    /\ HandleZoomCommitted(pages, lv)
    /\ uncommitted' = FALSE
    /\ UNCHANGED <<total_pages, visible, jobs, display_zoom, since_preview>>
    /\ UNCHANGED <<hist_vars, overlay_vars, sel_vars, wheel_vars>>

\* ZoomViewModel.set_fit_width / set_fit_page
SetFit(mode, calculated_zoom) ==
    LET lv == Clamp(calculated_zoom) IN
    /\ zoom_call' = "fit"
    /\ zoom_mode' = mode
    /\ zoom_level' = lv
    /\ display_zoom' = lv
    /\ since_preview' = 0
    /\ timer_left' = StopTimer(timer_left)
    /\ HandleZoomCommitted(PreviewPages(pages, lv), lv)
    /\ uncommitted' = FALSE
    /\ overlay' = OverlayAtZoom(overlay, lv)
    /\ UNCHANGED <<total_pages, visible, jobs>>
    /\ UNCHANGED <<hist_vars, overlay_hist, sel_vars, wheel_vars>>

\* the debounce QTimer expires: ZoomViewModel._commit_zoom
DebounceTimeout ==
    /\ timer_left = 0
    /\ timer_left' = -1
    /\ HandleZoomCommitted(pages, zoom_level)
    /\ uncommitted' = FALSE
    /\ overlay' = OverlayAtZoom(overlay, zoom_level)
    /\ UNCHANGED <<total_pages, display_zoom, visible, jobs>>
    /\ UNCHANGED <<zoom_level, zoom_mode, since_preview, zoom_call>>
    /\ UNCHANGED <<hist_vars, overlay_hist, sel_vars, wheel_vars>>

\* TickMs of time pass; an expired debounce timer fires before more time passes
Tick ==
    /\ timer_left # 0
    /\ timer_left > 0 \/ since_preview < DEBOUNCE_MS
    /\ timer_left' = IF timer_left > 0 THEN Max(0, timer_left - TickMs) ELSE timer_left
    /\ since_preview' = Min(DEBOUNCE_MS, since_preview + TickMs)
    /\ UNCHANGED viewer_vars
    /\ UNCHANGED <<jobs, zoom_level, zoom_mode, uncommitted, zoom_call>>
    /\ UNCHANGED <<hist_vars, ui_vars>>

\* time passes until the running debounce timer expires
DebounceElapses ==
    /\ timer_left > 0
    /\ timer_left' = 0
    /\ since_preview' = DEBOUNCE_MS
    /\ UNCHANGED viewer_vars
    /\ UNCHANGED <<jobs, zoom_level, zoom_mode, uncommitted, zoom_call>>
    /\ UNCHANGED <<hist_vars, ui_vars>>

ZoomIn == SetZoom(zoom_level + ZOOM_STEP, FALSE)
ZoomOut == SetZoom(zoom_level - ZOOM_STEP, FALSE)
ResetZoom == SetZoom(DEFAULT_ZOOM, TRUE)
SetPreset(level) == SetZoom(level, TRUE)
SetFitWidth(calculated_zoom) == SetFit("fit_width", calculated_zoom)
SetFitPage(calculated_zoom) == SetFit("fit_page", calculated_zoom)

(* ---------------- MainWindow: Ctrl+wheel ---------------- *)
\* int(x) for the quotient n / d, d > 0: towards zero
TruncDiv(n, d) == IF n >= 0 THEN n \div d ELSE -((-n) \div d)

RECURSIVE Pow2(_)
Pow2(n) == IF n <= 0 THEN 1 ELSE 2 * Pow2(n - 1)

\* the binary exponent of n >= 1
ILog2(n) == CHOOSE k \in 0..30 : Pow2(k) <= n /\ n < Pow2(k + 1)

\* zoom_ratio = new_zoom / old_zoom is the double nearest to the quotient (ties to
\* the even mantissa).  With 2^j <= new_zoom / old_zoom < 2^(j+1) the 53 bits of
\* its mantissa come from a long division of a by b, a / b being the quotient
\* over 2^j; what is left after the last bit decides the rounding.  The result is
\* the quotient plus num / den units of 2^(j - 52).
RECURSIVE LongDivision(_, _, _, _)
LongDivision(x, b, bits, last) ==
    IF bits = 0 THEN <<x, last>>
    ELSE LongDivision((2 * x) % b, b, bits - 1, IF 2 * x >= b THEN 1 ELSE 0)

ZoomRatioError(new_zoom, old_zoom) ==
    LET j == CHOOSE e \in -9..9 :
                 /\ new_zoom * Pow2(-e) >= old_zoom * Pow2(e)
                 /\ new_zoom * Pow2(-(e + 1)) < old_zoom * Pow2(e + 1)
        a == new_zoom * Pow2(-j)
        b == old_zoom * Pow2(j)
        rest == LongDivision(a - b, b, 52, 1)
        up == 2 * rest[1] > b \/ (2 * rest[1] = b /\ rest[2] = 1)
    IN [exp |-> j, num |-> IF up THEN b - rest[1] ELSE -rest[1], den |-> b]

\* new_scroll = int(doc_y_before * zoom_ratio - cursor_pos.y()) in double
\* arithmetic.  When doc_y_before * new_zoom / old_zoom is not a whole number, the
\* rounding errors are far smaller than its distance from one, and int() gives the
\* integral part of the exact value.  When it is the whole number n, the product
\* is the double nearest to n plus the error carried in by zoom_ratio: n itself
\* if that error is at most half the gap to the next double, else the next double
\* below or above n; the subtraction is exact where it matters, and int() of a
\* value just below a positive whole number is one less.
NewScroll(old_scroll, cursor_y, old_zoom, new_zoom) ==
    LET doc_y_before == old_scroll + cursor_y
        n == (doc_y_before * new_zoom) \div old_zoom
        whole == n - cursor_y
        err == ZoomRatioError(new_zoom, old_zoom)
        k == ILog2(n)
        \* below a power of two the doubles are twice as dense
        sh == IF err.num < 0 /\ n = Pow2(k) THEN 2 ELSE 1
        kept == doc_y_before * Abs(err.num) * Pow2(err.exp + sh)
                    <= err.den * Pow2(k) * Pow2(-(err.exp + sh))
        kw == ILog2(-whole)
    IN IF (doc_y_before * new_zoom) % old_zoom # 0
       THEN TruncDiv(doc_y_before * new_zoom - cursor_y * old_zoom, old_zoom)
       ELSE IF n = 0 \/ kept THEN whole
       ELSE IF err.num < 0 /\ whole >= 1 THEN whole - 1
       ELSE IF err.num > 0 /\ whole <= -1
                 /\ (k >= kw \/ (-whole = Pow2(kw) /\ k >= kw - 1)) THEN whole + 1
       ELSE whole

\* new_zoom = int(old_zoom + (delta / 120.0) * 10), clamped, for a wheel turned by
\* whole notches (delta a multiple of 120)
WheelZoom(old_zoom, delta) == Clamp(old_zoom + (delta \div 120) * 10)

\* MainWindow._handle_scroll_zoom (Ctrl+wheel over the viewer) with the cursor
\* cursor_y pixels below the top of the viewport
HandleScrollZoom(delta, cursor_y) ==
    LET old_scroll == scroll
        old_zoom == zoom_level
        new_zoom == WheelZoom(old_zoom, delta)
    IN /\ SetZoomCall(new_zoom, FALSE)
       /\ scroll_tasks' = Append(scroll_tasks,
              [new_scroll |-> NewScroll(old_scroll, cursor_y, old_zoom, new_zoom),
               old_scroll |-> old_scroll, cursor_y |-> cursor_y,
               old_zoom |-> old_zoom, new_zoom |-> new_zoom])
       /\ UNCHANGED scroll

\* QAbstractSlider.setValue: the value is kept inside the bar's range
BoundValue(value) == Max(0, Min(ScrollMaximum, value))

\* the event loop runs the oldest lambda: scroll_bar.setValue(new_scroll); a change
\* of the value reaches _check_visibility, the same pages being in view
DeferredScroll ==
    /\ scroll_tasks # <<>>
    /\ scroll_tasks' = Tail(scroll_tasks)
    /\ scroll' = BoundValue(Head(scroll_tasks).new_scroll)
    /\ IF scroll' # scroll
       THEN CheckVisibility(visible[1], visible[2])
       ELSE UNCHANGED <<pages, current_render_range, jobs>>
    /\ UNCHANGED <<total_pages, loaded_pages, display_zoom, committed_zoom, visible,
                   check_scheduled>>
    /\ UNCHANGED zoom_vars
    /\ UNCHANGED <<hist_vars, overlay_vars, sel_vars>>

\* the scroll bar is moved to value while the same pages stay in view:
\* valueChanged -> _check_visibility
ScrollWithin(value) ==
    /\ value # scroll
    /\ scroll' = BoundValue(value)
    /\ CheckVisibility(visible[1], visible[2])
    /\ UNCHANGED <<total_pages, loaded_pages, display_zoom, committed_zoom, visible,
                   check_scheduled, scroll_tasks>>
    /\ UNCHANGED zoom_vars
    /\ UNCHANGED <<hist_vars, overlay_vars, sel_vars>>

(* ---------------- SelectionModel / SelectionViewModel ---------------- *)
\* None, for a page index and for a character index
NoPage == -1
NoIdx == -1

\* seq[lo:hi] of Python for lo >= 0
PySlice(seq, lo, hi) ==
    LET n == Len(seq)
        h == IF hi < 0 THEN Max(0, hi + n) ELSE Min(hi, n)
    IN SubSeq(seq, lo + 1, h)

\* mutant: the indices are taken in the order given
GetTextRangeAsGiven(chars, start_idx, end_idx) ==
    PySlice(chars, Max(0, start_idx), Min(Len(chars) - 1, end_idx) + 1)

\* SelectionModel.get_text_range; the text is the sequence of its characters
GetTextRange(chars, start_idx, end_idx) ==
    LET lo == IF start_idx > end_idx THEN end_idx ELSE start_idx
        hi == IF start_idx > end_idx THEN start_idx ELSE end_idx
    IN PySlice(chars, Max(0, lo), Min(Len(chars) - 1, hi) + 1)

\* [a-zA-Z]
AsciiLetters ==
    {"a", "b", "c", "d", "e", "f", "g", "h", "i", "j", "k", "l", "m",
     "n", "o", "p", "q", "r", "s", "t", "u", "v", "w", "x", "y", "z",
     "A", "B", "C", "D", "E", "F", "G", "H", "I", "J", "K", "L", "M",
     "N", "O", "P", "Q", "R", "S", "T", "U", "V", "W", "X", "Y", "Z"}

\* SelectionViewModel.merge_hyphens: re.sub(r"-\n([a-zA-Z])", r"\1", text)
RECURSIVE MergeHyphens(_)
MergeHyphens(text) ==
    IF text = <<>> THEN <<>>
    ELSE IF Len(text) >= 3 /\ text[1] = "-" /\ text[2] = "\n" /\ text[3] \in AsciiLetters
         THEN <<text[3]>> \o MergeHyphens(SubSeq(text, 4, Len(text)))
         ELSE <<text[1]>> \o MergeHyphens(Tail(text))

\* SelectionViewModel.__init__ / clear_selection
NoSelection == [active_page |-> NoPage, start_idx |-> NoIdx, end_idx |-> NoIdx]

\* SelectionViewModel.start_selection
StartSelection(page_index, char_index) ==
    [active_page |-> page_index, start_idx |-> char_index, end_idx |-> char_index]

\* mutant: an update restarts the selection at the glyph
UpdatedSelectionRestarts(sel, char_index) ==
    IF sel.start_idx # NoIdx
    THEN [sel EXCEPT !.start_idx = char_index, !.end_idx = char_index] ELSE sel

\* mutant: an update moves the end without a selection having been started
UpdatedSelectionWithoutStart(sel, char_index) == [sel EXCEPT !.end_idx = char_index]

\* SelectionViewModel.update_selection: the fields
UpdatedSelection(sel, char_index) ==
    IF sel.start_idx # NoIdx THEN [sel EXCEPT !.end_idx = char_index] ELSE sel

\* the pages MainWindow._handle_document_loaded registered a SelectionModel for
RegisteredPages == IF loads > 0 THEN {0} ELSE {}

\* SelectionModel.get_bboxes_for_range
GetBboxesForRange(boxes, start_idx, end_idx) ==
    LET lo == IF start_idx > end_idx THEN end_idx ELSE start_idx
        hi == IF start_idx > end_idx THEN start_idx ELSE end_idx
    IN PySlice(boxes, lo, hi + 1)

\* SelectionViewModel.get_selection_bboxes, the selection being sel
GetSelectionBboxes(sel, page_index) ==
    IF page_index # sel.active_page \/ sel.start_idx = NoIdx THEN <<>>
    ELSE IF page_index \in RegisteredPages
         THEN GetBboxesForRange(bboxes, sel.start_idx, sel.end_idx)
         ELSE <<>>

\* update_selection calls _emit_current_selection, and that reaches its emit
EmitsSelection(sel) ==
    /\ sel.start_idx # NoIdx
    /\ sel.active_page # NoPage /\ sel.end_idx # NoIdx
    /\ sel.active_page \in RegisteredPages

\* _emit_current_selection after the selection became sel, if emits holds
EmitCurrentSelection(sel, emits) ==
    IF emits
    THEN LET raw_text == GetTextRange(characters, sel.start_idx, sel.end_idx)
         IN /\ text_call' = <<sel.start_idx, sel.end_idx, raw_text>>
            /\ selection_text' = MergeHyphens(raw_text)
    ELSE UNCHANGED <<text_call, selection_text>>

\* viewer.selection_started -> SelectionViewModel.start_selection
SelectionStarted(page_index, char_index) ==
    /\ selection' = StartSelection(page_index, char_index)
    /\ UNCHANGED <<characters, bboxes, text_call, selection_text>>
    /\ UNCHANGED <<viewer_vars, jobs, zoom_vars, hist_vars, overlay_vars, wheel_vars>>

\* viewer.selection_updated -> SelectionViewModel.update_selection
SelectionUpdated(char_index) ==
    /\ selection' = UpdatedSelection(selection, char_index)
    /\ EmitCurrentSelection(selection', EmitsSelection(selection'))
    /\ UNCHANGED <<characters, bboxes>>
    /\ UNCHANGED <<viewer_vars, jobs, zoom_vars, hist_vars, overlay_vars, wheel_vars>>

\* the Escape shortcut -> MainWindow._handle_selection_cleared ->
\* SelectionViewModel.clear_selection, which emits selection_changed("")
EscapePressed ==
    /\ selection' = NoSelection
    /\ selection_text' = <<>>
    /\ UNCHANGED <<characters, bboxes, text_call>>
    /\ UNCHANGED <<viewer_vars, jobs, zoom_vars, hist_vars, overlay_vars, wheel_vars>>

\* QRectF.right()
Right(b) == b.left + b.width

Digits == {"0", "1", "2", "3", "4", "5", "6", "7", "8", "9"}

\* is_word_char of select_word_at: c.isalnum() or c in "_-'"
IsWordChar(c) == c \in AsciiLetters \cup Digits \cup {"_", "-", "'"}

\* mutant: the horizontal gap does not end a word
WordBreakOnLineOnly(chars, boxes, at, neighbour) ==
    LET first == boxes[Min(at, neighbour) + 1]
        second == boxes[Max(at, neighbour) + 1]
    IN \/ ~IsWordChar(chars[neighbour + 1])
       \/ Abs(second.top - first.top) > LINE_THRESHOLD

\* the break condition of the two loops of select_word_at, the word having grown
\* to the glyph `at` and `neighbour` being the glyph before or after it:
\* gap is the later glyph's left() minus the earlier glyph's right()
WordBreak(chars, boxes, at, neighbour) ==
    LET first == boxes[Min(at, neighbour) + 1]
        second == boxes[Max(at, neighbour) + 1]
    IN \/ ~IsWordChar(chars[neighbour + 1])
       \/ second.left - Right(first) > SPACE_THRESHOLD
       \/ Abs(second.top - first.top) > LINE_THRESHOLD

\* while start > 0: .. start -= 1
RECURSIVE WordStart(_, _, _)
WordStart(chars, boxes, start) ==
    IF start > 0 /\ ~WordBreak(chars, boxes, start, start - 1)
    THEN WordStart(chars, boxes, start - 1)
    ELSE start

\* while end < len(chars) - 1: .. end += 1
RECURSIVE WordEnd(_, _, _)
WordEnd(chars, boxes, end) ==
    IF end < Len(chars) - 1 /\ ~WordBreak(chars, boxes, end, end + 1)
    THEN WordEnd(chars, boxes, end + 1)
    ELSE end

\* viewer.word_selection_requested -> SelectionViewModel.select_word_at
SelectWordAt(page_index, char_index) ==
    /\ IF page_index \in RegisteredPages /\ 0 <= char_index /\ char_index < Len(characters)
       THEN LET word == IsWordChar(characters[char_index + 1])
                start == IF word THEN WordStart(characters, bboxes, char_index)
                         ELSE char_index
                end == IF word THEN WordEnd(characters, bboxes, char_index)
                       ELSE char_index
            IN /\ selection' = UpdatedSelection(StartSelection(page_index, start), end)
               /\ EmitCurrentSelection(selection', EmitsSelection(selection'))
       ELSE UNCHANGED <<selection, text_call, selection_text>>
    /\ UNCHANGED <<characters, bboxes>>
    /\ UNCHANGED <<viewer_vars, jobs, zoom_vars, hist_vars, overlay_vars, wheel_vars>>

(* ---------------- TextOverlay ---------------- *)
\* The pointer is at a pixel <<x, y>> of the overlay.
NoPos == <<-1, -1>>
Points == {<<x, y * RowGap>> : x \in 0..MaxX, y \in 0..MaxY}

\* rect.contains(pdf_pos) for pdf_pos = pos * (100.0 / zoom): QRectF.contains takes
\* the edges in and is false for a rectangle without width or height.  Both sides
\* are multiplied by zoom, which keeps the comparison in integers.
Contains(rect, zoom, pos) ==
    /\ rect.width > 0 /\ rect.height > 0
    /\ rect.left * zoom <= pos[1] * 100 /\ pos[1] * 100 <= Right(rect) * zoom
    /\ rect.top * zoom <= pos[2] * 100 /\ pos[2] * 100 <= (rect.top + rect.height) * zoom

\* math.hypot(pdf_pos - rect.center()), as the square of 2 * zoom times it
ScaledDist(rect, zoom, pos) ==
    (200 * pos[1] - (2 * rect.left + rect.width) * zoom)
        * (200 * pos[1] - (2 * rect.left + rect.width) * zoom)
    + (200 * pos[2] - (2 * rect.top + rect.height) * zoom)
        * (200 * pos[2] - (2 * rect.top + rect.height) * zoom)

\* mutant: the threshold is taken in document units
ScaledThresholdInPdf(zoom) ==
    (2 * zoom * MAGNETIC_THRESHOLD) * (2 * zoom * MAGNETIC_THRESHOLD)

\* pdf_threshold = MAGNETIC_THRESHOLD / (zoom / 100.0), scaled as ScaledDist is
ScaledThreshold(zoom) ==
    (200 * MAGNETIC_THRESHOLD) * (200 * MAGNETIC_THRESHOLD)

\* TextOverlay._get_char_index_at: the first glyph whose box contains the point,
\* else the first of the glyphs nearest to it if nearer than the threshold
GetCharIndexAt(boxes, zoom, pos) ==
    LET idx == 1..Len(boxes)
        inside == {i \in idx : Contains(boxes[i], zoom, pos)}
        near == {i \in idx : ScaledDist(boxes[i], zoom, pos) < ScaledThreshold(zoom)}
        closest == {i \in near : \A j \in near :
                       ScaledDist(boxes[i], zoom, pos) <= ScaledDist(boxes[j], zoom, pos)}
        First(S) == CHOOSE i \in S : \A j \in S : i <= j
    IN IF inside # {} THEN First(inside) - 1
       ELSE IF closest # {} THEN First(closest) - 1
       ELSE NoIdx

GlyphAt(pos) == GetCharIndexAt(bboxes, overlay.display_zoom, pos)

\* (event.position() - self._drag_start_pos).manhattanLength()
ManhattanLength(p, q) == Abs(p[1] - q[1]) + Abs(p[2] - q[2])

\* mutant: a move of exactly the drag distance already starts the drag
ReachesDragDistance(drag_dist) == drag_dist >= StartDragDistance

\* drag_dist > QApplication.startDragDistance()
ExceedsDragDistance(drag_dist) == drag_dist > StartDragDistance

\* TextOverlay.__init__
NewOverlay == [display_zoom |-> 100, drag_start_pos |-> NoPos,
               pending_start_idx |-> NoIdx, is_dragging |-> FALSE]

InitOverlay ==
    /\ overlay = NewOverlay
    /\ left_down = FALSE
    /\ g_open = FALSE
    /\ g_pos = NoPos
    /\ g_glyph = NoIdx
    /\ g_far = FALSE
    /\ g_log = <<>>
    /\ characters = <<>>
    /\ bboxes = <<>>
    /\ selection = NoSelection
    /\ text_call = <<NoIdx, NoIdx, <<>>>>
    /\ selection_text = <<>>
    /\ scroll = 0
    /\ scroll_tasks = <<>>

\* mutant: a release only ends the drag
ReleasedKeepsPress(ov) == [ov EXCEPT !.is_dragging = FALSE]

\* TextOverlay.mouseReleaseEvent
Released(ov) ==
    [ov EXCEPT !.drag_start_pos = NoPos, !.pending_start_idx = NoIdx, !.is_dragging = FALSE]

\* TextOverlay.mousePressEvent on the overlay of page 0
MousePress(pos, button) ==
    /\ 0 \in DOMAIN pages
    /\ button = "left" => ~left_down
    /\ IF button = "left"
       THEN /\ left_down' = TRUE
            /\ g_open' = TRUE
            /\ g_pos' = pos
            /\ g_glyph' = GlyphAt(pos)
            /\ g_far' = FALSE
            /\ g_log' = << <<"selection_cleared", NoIdx>> >>
            /\ overlay' = IF GlyphAt(pos) # NoIdx
                          THEN [overlay EXCEPT !.drag_start_pos = pos,
                                               !.pending_start_idx = GlyphAt(pos),
                                               !.is_dragging = FALSE]
                          ELSE [overlay EXCEPT !.drag_start_pos = NoPos,
                                               !.pending_start_idx = NoIdx]
            /\ selection' = NoSelection
            /\ selection_text' = <<>>
            /\ UNCHANGED <<characters, bboxes, text_call>>
       ELSE UNCHANGED <<overlay_vars, sel_vars>>
    /\ UNCHANGED <<viewer_vars, jobs, zoom_vars, hist_vars, wheel_vars>>

\* mutant: every move over a glyph emits an update
EmitsUpdateOverGlyph(dragging, idx) == idx # NoIdx

\* `if self._is_dragging:` .. `if idx is not None:` of mouseMoveEvent
EmitsUpdate(dragging, idx) == dragging /\ idx # NoIdx

\* TextOverlay.mouseMoveEvent
MouseMove(pos) ==
    /\ 0 \in DOMAIN pages
    /\ LET armed == overlay.pending_start_idx # NoIdx /\ left_down
           starts == /\ armed /\ ~overlay.is_dragging
                     /\ ExceedsDragDistance(ManhattanLength(pos, overlay.drag_start_pos))
           dragging == armed /\ (overlay.is_dragging \/ starts)
           started == IF starts THEN << <<"selection_started", overlay.pending_start_idx>> >>
                      ELSE <<>>
           updated == IF EmitsUpdate(dragging, GlyphAt(pos))
                      THEN << <<"selection_updated", GlyphAt(pos)>> >> ELSE <<>>
           sel == IF starts THEN StartSelection(0, overlay.pending_start_idx) ELSE selection
       IN /\ overlay' = [overlay EXCEPT !.is_dragging = IF armed THEN dragging ELSE @]
          /\ g_log' = g_log \o started \o updated
          /\ selection' = IF updated # <<>> THEN UpdatedSelection(sel, GlyphAt(pos)) ELSE sel
          /\ EmitCurrentSelection(selection', updated # <<>> /\ EmitsSelection(selection'))
          /\ g_far' = (g_far \/ (g_open /\ g_glyph # NoIdx
                                   /\ ManhattanLength(pos, g_pos) > StartDragDistance))
    /\ UNCHANGED <<left_down, g_open, g_pos, g_glyph, characters, bboxes>>
    /\ UNCHANGED <<viewer_vars, jobs, zoom_vars, hist_vars, wheel_vars>>

\* TextOverlay.mouseReleaseEvent, of either button
MouseRelease(button) ==
    /\ 0 \in DOMAIN pages
    /\ button = "left" => left_down
    /\ overlay' = Released(overlay)
    /\ left_down' = IF button = "left" THEN FALSE ELSE left_down
    /\ g_open' = FALSE
    /\ UNCHANGED <<g_pos, g_glyph, g_far, g_log>>
    /\ UNCHANGED <<viewer_vars, jobs, zoom_vars, hist_vars, sel_vars, wheel_vars>>

(* ---------------- specifications ---------------- *)
\* the state after MainWindow.__init__: no document
Init ==
    /\ pages = <<>>
    /\ total_pages = 0
    /\ loaded_pages = <<>>
    /\ current_render_range = {}
    /\ display_zoom = 100
    /\ committed_zoom = 100
    /\ visible = <<0, -1>>
    /\ check_scheduled = FALSE
    /\ jobs = <<>>
    /\ zoom_level = DEFAULT_ZOOM
    /\ zoom_mode = "manual"
    /\ timer_left = -1
    /\ since_preview = DEBOUNCE_MS
    /\ zoom_call = "none"
    /\ uncommitted = FALSE
    /\ loads = 0
    /\ closed = FALSE
    /\ load_log = <<>>
    /\ evict_log = <<>>
    /\ InitOverlay

\* A document of n pages, scrolled (one page in view), zoomed and rendered in
\* every interleaving, with at most j request_page tasks at a time.
NextSched(n, j) ==
    \/ LoadDocument(n)
    \/ \E a \in 0..(n - 1) : Scroll(a, a) /\ Len(jobs') <= j
    \/ TimerCheck /\ Len(jobs') <= j
    \/ StartRequest
    \/ \E k \in 1..j : RenderDone(k)
    \/ \E k \in 1..j : FinishRequest(k)
    \/ \E l \in SchedLevels : SetZoom(l, FALSE)
    \/ \E l \in SchedLevels : SetFitWidth(l)
    \/ DebounceElapses
    \/ DebounceTimeout

\* the scheduling specification
Next ==
    \/ NextSched(NumPages, MaxJobs)
    \/ \E k \in 1..MaxJobs : RenderFailed(k)

Spec == Init /\ [][Next]_vars

\* the rendering specification
NextRender == NextSched(RenderPages, RenderJobs)

SpecRender == Init /\ [][NextRender]_vars

\* page_rendered(p, image, zoom) reaches update_page_image; the loader's log and
\* the cache's evictions are recorded
PageRendered(p, zoom) ==
    /\ p \in DOMAIN pages
    /\ UpdatePageImage(p, zoom)
    /\ load_log' = Append(load_log, p)
    /\ evict_log' = evict_log \o EvictedPages(TouchLoaded(loaded_pages, p))
    /\ UNCHANGED <<total_pages, display_zoom, committed_zoom, visible, check_scheduled>>
    /\ UNCHANGED jobs
    /\ UNCHANGED zoom_vars
    /\ UNCHANGED <<loads, closed, ui_vars>>

\* the sequential-load specification: the pages of one document get their images
\* in increasing index order, some of them skipped
NextSeq ==
    \/ LoadDocument(SeqPages)
    \/ \E p \in 0..(SeqPages - 1) :
          /\ \A i \in 1..Len(load_log) : load_log[i] < p
          /\ PageRendered(p, committed_zoom)

SpecSeq == Init /\ [][NextSeq]_vars

\* the cache specification: pages 0, 1, 2, .. get their images one after the
\* other while the zoom is changed and committed
NextCache ==
    \/ LoadDocument(CachePages)
    \/ PageRendered(Len(load_log), committed_zoom)
    \/ \E l \in SchedLevels : SetFitWidth(l)
    \/ \E l \in SchedLevels : SetZoom(l, FALSE)
    \/ DebounceElapses
    \/ DebounceTimeout

SpecCache == Init /\ [][NextCache]_vars

\* the window specification: documents of every size up to WindowPages, every
\* viewport of at most MaxSpan + 1 pages
NextWindow ==
    \/ \E n \in 1..WindowPages : LoadDocument(n)
    \/ \E a \in 0..(WindowPages - 1), b \in 0..(WindowPages - 1) : Scroll(a, b)
    \/ TimerCheck

SpecWindow == Init /\ [][NextWindow]_vars

\* the zoom specification: the zoom coordinator alone, before a document is loaded
FitSamples == {25, 60, 400}

NextZoom ==
    \/ ZoomIn
    \/ ZoomOut
    \/ ResetZoom
    \/ \E l \in PRESET_LEVELS : SetPreset(l)
    \/ \E c \in FitSamples : SetFitWidth(c)
    \/ \E c \in FitSamples : SetFitPage(c)
    \/ DebounceTimeout
    \/ Tick
    \/ TimerCheck

SpecZoom == Init /\ [][NextZoom]_vars

\* the needs-rerender specification: a one-page document whose page holds an image
\* rendered at r while the display zoom is d, for every r and d near 100; the page
\* is then looked at by a recompute and by a commit at the display zoom
NeedsLevels == (100 - NeedsSpread)..(100 + NeedsSpread)

InitNeeds ==
    /\ \E r \in NeedsLevels, d \in NeedsLevels :
          /\ pages = [i \in {0} |-> [is_loaded |-> TRUE, is_rendering |-> FALSE,
                                     render_zoom |-> r, display_zoom |-> d]]
          /\ display_zoom = d
          /\ zoom_level = d
          /\ committed_zoom = r
    /\ total_pages = 1
    /\ loaded_pages = <<0>>
    /\ current_render_range = {}
    /\ visible = <<0, 0>>
    /\ check_scheduled = FALSE
    /\ jobs = <<>>
    /\ zoom_mode = "manual"
    /\ timer_left = -1
    /\ since_preview = DEBOUNCE_MS
    /\ zoom_call = "none"
    /\ uncommitted = FALSE
    /\ loads = 1
    /\ closed = FALSE
    /\ load_log = <<>>
    /\ evict_log = <<>>
    /\ InitOverlay

NextNeeds ==
    \/ Scroll(0, 0) /\ Len(jobs') <= 1
    \/ SetFitPage(zoom_level)

SpecNeeds == InitNeeds /\ [][NextNeeds]_vars

\* the scrolling specification: a document long enough for pages to leave the
\* render window, scrolled between its ends while its pages are rendered
NextScroll ==
    \/ LoadDocument(ScrollPages)
    \/ \E a \in {0, ScrollPages - 1} : Scroll(a, a) /\ Len(jobs') <= ScrollJobs
    \/ TimerCheck /\ Len(jobs') <= ScrollJobs
    \/ StartRequest
    \/ \E k \in 1..ScrollJobs : RenderDone(k)
    \/ \E k \in 1..ScrollJobs : RenderFailed(k)
    \/ \E k \in 1..ScrollJobs : FinishRequest(k)

SpecScroll == Init /\ [][NextScroll]_vars

\* the ordering specification: a long document scrolled over its last pages
NextOrder ==
    \/ LoadDocument(OrderPages)
    \/ \E a \in (OrderPages - OrderTail)..(OrderPages - 1),
          b \in (OrderPages - OrderTail)..(OrderPages - 1) : Scroll(a, b)
    \/ TimerCheck

SpecOrder == Init /\ [][NextOrder]_vars

\* the overlay specification: mouse events on the overlay of a one-page document
NextOverlay ==
    \/ LoadDocument(1)
    \/ \E pos \in Points, button \in {"left", "right"} : MousePress(pos, button)
    \/ \E pos \in Points : MouseMove(pos) /\ Len(g_log') <= MaxSignals
    \/ \E button \in {"left", "right"} : MouseRelease(button)

SpecOverlay == Init /\ [][NextOverlay]_vars

\* the text specification: a page of TextLen characters is registered, and the
\* selection handlers are called with every pair of indices
TextIdx == 0..(TextLen + 1)

\* a one-page document whose page has the characters chars with the boxes boxes,
\* loaded and not yet rendered
InitPage(chars, boxes) ==
    /\ pages = [i \in {0} |-> NewPage]
    /\ total_pages = 1
    /\ loaded_pages = <<>>
    /\ current_render_range = {}
    /\ display_zoom = 100
    /\ committed_zoom = 100
    /\ visible = <<0, 0>>
    /\ check_scheduled = TRUE
    /\ jobs = <<>>
    /\ zoom_level = DEFAULT_ZOOM
    /\ zoom_mode = "manual"
    /\ timer_left = -1
    /\ since_preview = DEBOUNCE_MS
    /\ zoom_call = "none"
    /\ uncommitted = FALSE
    /\ loads = 1
    /\ closed = FALSE
    /\ load_log = <<>>
    /\ evict_log = <<>>
    /\ overlay = NewOverlay
    /\ left_down = FALSE
    /\ g_open = FALSE
    /\ g_pos = NoPos
    /\ g_glyph = NoIdx
    /\ g_far = FALSE
    /\ g_log = <<>>
    /\ characters = chars
    /\ bboxes = boxes
    /\ selection = NoSelection
    /\ text_call = <<NoIdx, NoIdx, <<>>>>
    /\ selection_text = <<>>
    /\ scroll = 0
    /\ scroll_tasks = <<>>

InitText == InitPage(SubSeq(SampleText, 1, TextLen), SampleBoxes(TextLen))

NextText ==
    \/ \E a \in TextIdx : SelectionStarted(0, a)
    \/ \E b \in TextIdx : SelectionUpdated(b)

SpecText == InitText /\ [][NextText]_vars

\* the word specification: pages of WordLen glyphs, each glyph one of WordAlphabet
\* and each placed after the one before it by one of WordSteps (<<gap, rise>>: left
\* edge gap units right of the right edge before, top edge rise units lower), and
\* the two pages "catdog" and "cat dog" with 6 units between t and d;
\* select_word_at is called on every glyph
WordAlphabet == {"d", "1", "-", " "}
WordSteps == {<<4, 5>>, <<5, 0>>, <<0, 6>>, <<-12, 5>>}

LayBoxes(steps) ==
    LET b[k \in 1..(Len(steps) + 1)] ==
            IF k = 1 THEN Box(20, 0, 5, 10)
            ELSE Box(Right(b[k - 1]) + steps[k - 1][1], b[k - 1].top + steps[k - 1][2], 5, 10)
    IN [k \in 1..(Len(steps) + 1) |-> b[k]]

CatDog == <<"c", "a", "t", "d", "o", "g">>
CatDogBoxes == LayBoxes(<<<<0, 0>>, <<0, 0>>, <<6, 0>>, <<0, 0>>, <<0, 0>>>>)
CatSpaceDog == <<"c", "a", "t", " ", "d", "o", "g">>
CatSpaceDogBoxes == LayBoxes(<<<<0, 0>>, <<0, 0>>, <<0, 0>>, <<1, 0>>, <<0, 0>>, <<0, 0>>>>)

InitWord ==
    \/ \E chars \in [1..WordLen -> WordAlphabet], steps \in [1..(WordLen - 1) -> WordSteps] :
          InitPage(chars, LayBoxes(steps))
    \/ InitPage(CatDog, CatDogBoxes)
    \/ InitPage(CatSpaceDog, CatSpaceDogBoxes)

NextWord == \E i \in 0..Len(characters) : SelectWordAt(0, i)

SpecWord == InitWord /\ [][NextWord]_vars

\* the hit-test specification: a page of two small glyphs 26 units apart, shown
\* at the zoom levels HitZooms; the left button is pressed at every pixel of
\* HitPoints
HitText == <<"a", "b">>
HitBoxes == <<Box(10, 10, 4, 4), Box(36, 10, 4, 4)>>
HitZooms == {50, 100, 200}
HitPoints == {<<x * HitStep, y * HitStep>> : x \in 0..HitMaxX, y \in 0..HitMaxY}

InitHit == InitPage(HitText, HitBoxes)

NextHit ==
    \/ \E l \in HitZooms : SetPreset(l)
    \/ \E pos \in HitPoints : MousePress(pos, "left")
    \/ MouseRelease("left")

SpecHit == InitHit /\ [][NextHit]_vars

\* the wheel specification: a one-page document; the scroll bar is moved, the
\* wheel is turned by one notch with Ctrl held while the cursor is at one of
\* CursorYs, at zoom levels near the default and at the maximum, and the deferred
\* scrolls run whenever the event loop gets to them
WheelDeltas == {-120, 120}
CursorYs == {50}
ScrollSamples == {5, 30}
WheelZooms == {100, 110, 120, 400}

NextWheel ==
    \/ LoadDocument(1)
    \/ \E delta \in WheelDeltas, cursor_y \in CursorYs :
          /\ total_pages > 0
          /\ Len(scroll_tasks) < MaxPending
          /\ HandleScrollZoom(delta, cursor_y)
          /\ zoom_level' \in WheelZooms
          /\ scroll_tasks'[Len(scroll_tasks')].new_scroll <= WheelScrollLimit
    \/ DeferredScroll
    \/ \E value \in ScrollSamples : total_pages > 0 /\ ScrollWithin(value)
    \/ SetPreset(MAX_ZOOM)

SpecWheel == Init /\ [][NextWheel]_vars

\* the selection specification: a document of SelectPages pages; the overlay of
\* any page reports the start of a drag, and updates of it, at the glyph indices
\* 0..SelectMax, and Escape clears the selection
NextSelect ==
    \/ LoadDocument(SelectPages)
    \/ \E page_index \in DOMAIN pages, char_index \in 0..SelectMax :
          SelectionStarted(page_index, char_index)
    \/ \E char_index \in 0..SelectMax : SelectionUpdated(char_index)
    \/ EscapePressed

SpecSelect == Init /\ [][NextSelect]_vars

\* the eviction specification: a document longer than the cache; until the cache
\* is full the viewport is scrolled between the pages EvictStops, one page in
\* view, each time after the renders of the previous position have ended, and the
\* requested pages are rendered one after the other
EvictStops == {0, 3, EvictPages - 4}

NextEvict ==
    \/ LoadDocument(EvictPages)
    \/ \E a \in EvictStops : /\ a # visible[1] /\ jobs = <<>>
          /\ Len(loaded_pages) < MAX_CACHED_PAGES
          /\ Scroll(a, a)
    \/ TimerCheck
    \/ (\A i \in 1..Len(jobs) : jobs[i].st = "new") /\ StartRequest
    \/ \E k \in 1..EvictJobs : RenderDone(k)
    \/ \E k \in 1..EvictJobs : FinishRequest(k)

SpecEvict == Init /\ [][NextEvict]_vars

\* the cancellation specification: a document long enough for pages to leave the
\* render window, scrolled within and between its ends while a zoom preview makes
\* the recomputes request a page that holds an image, again and again.  Before
\* the next event of the user or of a timer is handled, the request_page tasks a
\* recompute created have started and those whose render returned have ended;
\* the renders return in the order they were submitted in.
CancelStops == {0, CancelPages - 1}

Settled == \A i \in 1..Len(jobs) : jobs[i].st \notin {"new", "done"}

NextCancel ==
    \/ LoadDocument(CancelPages)
    \/ \E a \in CancelStops : Settled /\ Scroll(a, a) /\ Len(jobs') <= CancelJobs
    \/ Settled /\ TimerCheck /\ Len(jobs') <= CancelJobs
    \/ StartRequest
    \/ \E k \in 1..Len(jobs) : (\A i \in 1..(k - 1) : jobs[i].st # "run") /\ RenderDone(k)
    \/ \E k \in 1..CancelJobs : FinishRequest(k)
    \/ Settled /\ zoom_level = DEFAULT_ZOOM /\ ZoomIn

SpecCancel == Init /\ [][NextCancel]_vars

\* the shutdown specification: a short document scrolled within its first page,
\* zoomed and rendered until the view model is closed, and after.  As in the
\* cancellation specification, the events of the user and of the timers are
\* handled when the tasks created before have started and those whose render
\* returned have ended.
NextClose ==
    \/ LoadDocument(ClosePages)
    \/ Settled /\ Scroll(0, 0) /\ Len(jobs') <= CloseJobs
    \/ Settled /\ TimerCheck /\ Len(jobs') <= CloseJobs
    \/ StartRequest
    \/ \E k \in 1..CloseJobs : RenderDone(k)
    \/ \E k \in 1..CloseJobs : FinishRequest(k)
    \/ Settled /\ zoom_level = DEFAULT_ZOOM /\ ZoomIn
    \/ Close

SpecClose == Init /\ [][NextClose]_vars

\* the hyphenation specification: one-page documents whose page has HyphenLen
\* glyphs, each one of HyphenAlphabet, selected from and to every glyph
HyphenAlphabet == {"-", "\n", "a", "B"}

InitHyphen ==
    \E chars \in [1..HyphenLen -> HyphenAlphabet] : InitPage(chars, SampleBoxes(HyphenLen))

NextHyphen ==
    \/ \E a \in 0..(HyphenLen - 1) : SelectionStarted(0, a)
    \/ \E b \in 0..(HyphenLen - 1) : SelectionUpdated(b)

SpecHyphen == InitHyphen /\ [][NextHyphen]_vars

\* the liveness specification: a document long enough for pages to leave the
\* render window, scrolled between and within its ends while its pages are
\* rendered, every render returning an image.  A scroll event that does not
\* change the pages in view recomputes the window where it is.  main() loads the
\* document, the event loop
\* runs every timer, every task and every finally block that is due, the
\* executor ends every render it runs, and the recompute keeps being triggered.
ScrollInPlace == Scroll(visible[1], visible[2])

NextLive ==
    \/ LoadDocument(LivePages)
    \/ \E a \in {0, LivePages - 1} : Settled /\ Scroll(a, a) /\ Len(jobs') <= LiveJobs
    \/ TimerCheck /\ Len(jobs') <= LiveJobs
    \/ StartRequest
    \/ \E k \in 1..LiveJobs : RenderDone(k)
    \/ \E k \in 1..LiveJobs : FinishRequest(k)

SpecLive ==
    /\ Init
    /\ [][NextLive]_vars
    /\ WF_vars(LoadDocument(LivePages))
    /\ WF_vars(TimerCheck /\ Len(jobs') <= LiveJobs)
    /\ WF_vars(Settled /\ ScrollInPlace /\ Len(jobs') <= LiveJobs)
    /\ WF_vars(StartRequest)
    /\ WF_vars(\E k \in 1..LiveJobs : RenderDone(k))
    /\ WF_vars(\E k \in 1..LiveJobs : FinishRequest(k))

\* the commit specification: the rendering specification with the presets, which
\* commit at once
NextCommit ==
    \/ NextRender
    \/ \E l \in SchedLevels : SetPreset(l)

SpecCommit == Init /\ [][NextCommit]_vars

(* ======================= claims ======================= *)
Resident == {i \in DOMAIN pages : pages[i].is_loaded}
Recompute == TimerCheck \/ \E a \in DOMAIN pages, b \in DOMAIN pages : Scroll(a, b)
\* the pages request_page_render was emitted for in this step
Requested == {jobs'[k].page : k \in (Len(jobs) + 1)..Len(jobs')}
\* a request_page task of the page has been created and its render neither
\* returned nor was cancelled
InFlight(p) == \E k \in 1..Len(jobs) : jobs[k].page = p /\ jobs[k].st \in {"new", "run"}

\* C1: a visibility recompute with visible range [a,b], lookahead L and page
\* count N leaves the render window {i : max(0, a-L) <= i <= min(N-1, b+L)}.
C1_RenderWindow ==
    [][Recompute /\ visible'[1] <= visible'[2] =>
        LET a == visible'[1]
            b == visible'[2]
            L == LOOKAHEAD_PAGES
            N == total_pages
        IN  current_render_range' = {i \in (a - L)..(b + L) : 0 <= i /\ i <= N - 1}]_vars
\* a recompute has run in a 5-page document showing pages 1..2: clipped at both ends
C1_Witness ==
    /\ total_pages = 5 /\ visible = <<1, 2>>
    /\ current_render_range = 0..4
    /\ Len(jobs) = 5

\* C2: after more than C distinct pages got their image in increasing index
\* order, the resident pages are exactly the C loaded last and the pages evicted
\* are the others, evicted in the order they were loaded.
C2_SequentialEviction ==
    LET n == Len(load_log) IN
    n > MAX_CACHED_PAGES =>
        /\ Resident = Range(SubSeq(load_log, n - MAX_CACHED_PAGES + 1, n))
        /\ evict_log = SubSeq(load_log, 1, n - MAX_CACHED_PAGES)
\* pages 0..14 loaded in sequence: 3..14 resident, 0..2 evicted in that order
C2_Witness ==
    /\ load_log = [i \in 1..15 |-> i - 1]
    /\ Resident = 3..14
    /\ evict_log = <<0, 1, 2>>

\* C3 (as claimed): the pages that hold a rendered image never number more than
\* the cache capacity.
C3_CacheBound == Cardinality(Resident) <= MAX_CACHED_PAGES

\* C4: for a loaded page needs_rerender is false when rendered and display zoom
\* differ by at most 5 and true when they differ by more; a recompute requests a
\* loaded page only in the second case.
C4_NeedsRerender ==
    \A i \in DOMAIN pages :
        LET diff == pages[i].render_zoom - pages[i].display_zoom IN
        pages[i].is_loaded =>
            /\ (diff \in -5..5) => ~NeedsRerender(pages[i])
            /\ (diff \notin -5..5) => NeedsRerender(pages[i])
            /\ pages[i].is_rendering => diff \notin -5..5
\* rendered 100 / display 106: a recompute found the page to need a re-render
C4_Witness ==
    /\ 0 \in DOMAIN pages
    /\ pages[0].is_loaded /\ pages[0].render_zoom = 100 /\ pages[0].display_zoom = 106
    /\ NeedsRerender(pages[0]) /\ pages[0].is_rendering

\* C5 (as claimed): right after a visibility recompute, a second recompute at the
\* same scroll position and zoom would request nothing.
C5_Idempotent ==
    [][Recompute /\ visible'[1] <= visible'[2] =>
        PagesToRequest(pages',
            NewRenderRange(visible'[1], visible'[2], total_pages')) = {}]_vars

\* C6 (as claimed): a recompute never requests a page that has a render in flight
\* or that is loaded within the tolerance of the display zoom.
C6_NoRerequest ==
    [][Recompute =>
        \A p \in Requested :
            /\ ~InFlight(p)
            /\ ~(pages[p].is_loaded /\ ~NeedsRerender(pages[p]))]_vars

\* C7 (as claimed): no page has two render tasks that are neither finished nor
\* cancelled.
C7_OneRenderPerPage ==
    \A p \in DOMAIN pages :
        Cardinality({k \in 1..Len(jobs) : jobs[k].page = p /\ jobs[k].st = "run"}) <= 1

\* C8 (as claimed): a render result becomes a page's image only if the page is in
\* the render window of the scroll position and the result was rendered at the
\* zoom no later commit has superseded.
C8_StaleDiscarded ==
    [][\A k \in 1..Len(jobs) :
          (RenderDone(k) /\ pages'[jobs[k].page].is_loaded
                         /\ pages'[jobs[k].page].render_zoom = jobs[k].zoom) =>
              /\ jobs[k].page \in NewRenderRange(visible[1], visible[2], total_pages)
              /\ jobs[k].zoom = committed_zoom]_vars

\* C9: the committed zoom changes only in a step that handles a commit event
\* (debounce expiry, fit-width/fit-page, immediate set_zoom), and every render
\* request carries the committed zoom, which the requesting step leaves alone.
CommitEvent ==
    \/ DebounceTimeout
    \/ \E l \in MIN_ZOOM..MAX_ZOOM : zoom_level' = l /\ (SetFitWidth(l) \/ SetFitPage(l))
    \/ \E l \in MIN_ZOOM..MAX_ZOOM : zoom_level' = l /\ SetZoom(l, TRUE)
C9_CommittedZoom ==
    [][/\ committed_zoom' # committed_zoom => CommitEvent
       /\ \A k \in (Len(jobs) + 1)..Len(jobs') :
             jobs'[k].zoom = committed_zoom /\ committed_zoom' = committed_zoom]_vars
\* a request issued during a preview (display 110) carries the committed zoom 100
C9_Witness ==
    /\ display_zoom # committed_zoom
    /\ uncommitted
    /\ \E k \in 1..Len(jobs) : jobs[k].st = "new" /\ jobs[k].zoom = committed_zoom

\* C10: a preview change leaves exactly one commit pending (the debounce timer
\* runs iff a preview is uncommitted), the timer expires DEBOUNCE_MS after the last
\* preview change, and once committed the committed zoom is the display zoom the
\* last change set.
C10_Debounce ==
    /\ uncommitted <=> timer_left >= 0
    /\ timer_left >= 0 => timer_left + since_preview = DEBOUNCE_MS
    /\ display_zoom = zoom_level
    /\ ~uncommitted => committed_zoom = zoom_level
\* two changes in a burst (100 -> 110 -> 120), the timer restarted by the second
\* and now expired: the one commit is due and will carry 120
C10_Witness ==
    /\ zoom_level = 120 /\ committed_zoom = 100
    /\ uncommitted /\ timer_left = 0 /\ since_preview = DEBOUNCE_MS

\* C11: set_fit_width / set_fit_page with a calculated level apply the clamped
\* level as preview and commit it in the same step, and leave the debounce timer
\* stopped, so that no commit of an earlier preview change is pending afterwards.
C11_FitCommitsAtOnce ==
    [][\A c \in FitSamples :
          (SetFitWidth(c) \/ SetFitPage(c)) =>
              /\ display_zoom' = Max(MIN_ZOOM, Min(MAX_ZOOM, c))
              /\ committed_zoom' = display_zoom'
              /\ timer_left' = -1
              /\ ~uncommitted']_vars

\* fit-width with a calculated level below the minimum has just acted: the
\* clamped level 50 is displayed and committed, no debounce is running
C11_Witness ==
    /\ zoom_mode = "fit_width"
    /\ display_zoom = MIN_ZOOM /\ committed_zoom = MIN_ZOOM
    /\ since_preview = 0 /\ timer_left = -1

\* C12: after any sequence of zoom operations the display zoom, and with it the
\* level every preview and commit handler received, lies in [50, 400].
C12_ZoomInRange ==
    /\ zoom_level \in 50..400
    /\ display_zoom \in 50..400
    /\ committed_zoom \in 50..400
\* zoom-out at the minimum, or fit-page with a calculated level of 25, has acted
\* and the level stayed at 50
C12_Witness ==
    /\ zoom_level = 50 /\ display_zoom = 50 /\ committed_zoom = 50
    /\ zoom_mode = "fit_page"

\* C13: when a zoom commit is handled, every loaded page whose rendered zoom is
\* more than 5 away from the committed zoom is unloaded, and every loaded page
\* within 5 of it keeps its image and its rendered zoom.
C13_CommitInvalidates ==
    [][committed_zoom' # committed_zoom \/ CommitEvent =>
        \A i \in DOMAIN pages :
            pages[i].is_loaded =>
                IF pages[i].render_zoom - committed_zoom' \in -5..5
                THEN pages'[i].is_loaded /\ pages'[i].render_zoom = pages[i].render_zoom
                ELSE ~pages'[i].is_loaded]_vars
\* the loaded page of the document was more than 5 away from the zoom 106 that
\* fit-page committed, and is unloaded
C13_Witness ==
    /\ zoom_mode = "fit_page" /\ committed_zoom = 106
    /\ 0 \in DOMAIN pages /\ ~pages[0].is_loaded
    /\ loaded_pages = <<>>

\* C14 (as claimed): when the render of a page fails and no other render of the
\* page is in flight, the page is left without image and not marked rendering, so
\* that a recompute whose window contains it requests it.
C14_FailureRetried ==
    [][\A k \in 1..Len(jobs) :
          (RenderFailed(k) /\ \A i \in 1..Len(jobs') :
                                 jobs'[i].page = jobs[k].page => jobs'[i].st \notin {"new", "run"}) =>
              /\ ~pages'[jobs[k].page].is_loaded => ~pages'[jobs[k].page].is_rendering
              /\ ~pages'[jobs[k].page].is_loaded =>
                    jobs[k].page \in PagesToRequest(pages', {jobs[k].page})]_vars

\* C15 (as claimed): when a recompute leaves a page that has a render in flight
\* and no image outside the new window, the render is cancelled and the page is
\* no longer marked rendering, so that a later recompute requests it again.
C15_LeavingCancelled ==
    [][Recompute =>
        \A p \in DOMAIN pages :
            (InFlight(p) /\ ~pages[p].is_loaded /\ p \notin current_render_range') =>
                /\ \A k \in 1..Len(jobs') :
                      jobs'[k].page = p => jobs'[k].st \notin {"new", "run"}
                /\ ~pages'[p].is_rendering]_vars

\* C16 (as claimed): no page is both loaded and marked rendering, and a page
\* changes state only Unloaded -> Pending, Pending -> Loaded, Loaded -> Unloaded
\* or Pending -> Unloaded.
PageState(pg) ==
    IF pg.is_loaded THEN "Loaded" ELSE IF pg.is_rendering THEN "Pending" ELSE "Unloaded"
C16_PageStateMachine ==
    [][\A i \in DOMAIN pages \cap DOMAIN pages' :
          /\ ~(pages'[i].is_loaded /\ pages'[i].is_rendering)
          /\ \/ PageState(pages'[i]) = PageState(pages[i])
             \/ <<PageState(pages[i]), PageState(pages'[i])>> \in
                   {<<"Unloaded", "Pending">>, <<"Pending", "Loaded">>,
                    <<"Loaded", "Unloaded">>, <<"Pending", "Unloaded">>}]_vars

\* C17 (as claimed): the requests one recompute emits are in order of increasing
\* distance from the viewport center, the lower index first at equal distance.
C17_RequestOrder ==
    [][Recompute =>
        \A k \in (Len(jobs) + 1)..Len(jobs'), l \in (Len(jobs) + 1)..Len(jobs') :
            k < l =>
                LET dk == Abs(2 * jobs'[k].page - (visible'[1] + visible'[2]))
                    dl == Abs(2 * jobs'[l].page - (visible'[1] + visible'[2]))
                IN dk < dl \/ (dk = dl /\ jobs'[k].page < jobs'[l].page)]_vars

\* C18: in a gesture that started with a left press on a glyph, selection_started
\* was emitted once, with the glyph hit by the press, if a move of the gesture
\* went beyond the drag distance, and not at all otherwise; no selection_updated
\* comes before it.
C18_StartOnce ==
    g_glyph # NoIdx =>
        /\ SelectSeq(g_log, LAMBDA e : e[1] = "selection_started") =
              IF g_far THEN << <<"selection_started", g_glyph>> >> ELSE <<>>
        /\ \A k \in 1..Len(g_log) :
              g_log[k][1] = "selection_updated" =>
                  \E j \in 1..(k - 1) : g_log[j][1] = "selection_started"
\* a press on glyph 1, a move beyond the drag distance and two more moves over
\* glyphs: one selection_started, then two updates
C18_Witness ==
    /\ g_open /\ g_glyph = 1 /\ g_far
    /\ Len(g_log) = 4
    /\ g_log[2] = <<"selection_started", 1>>
    /\ g_log[3][1] = "selection_updated" /\ g_log[4][1] = "selection_updated"

\* C19: a gesture without a move beyond the drag distance emits neither
\* selection_started nor selection_updated, and after a release the overlay is
\* idle: no press position, no pending start glyph, not dragging.
C19_ReleaseToIdle ==
    /\ ~g_far => \A k \in 1..Len(g_log) :
                    g_log[k][1] \notin {"selection_started", "selection_updated"}
    /\ ~g_open => /\ overlay.drag_start_pos = NoPos
                  /\ overlay.pending_start_idx = NoIdx
                  /\ ~overlay.is_dragging
\* a press on a glyph and a release, no far move between: only the press's
\* selection_cleared was emitted and the overlay is idle
C19_Witness ==
    /\ ~g_open /\ ~left_down /\ g_glyph # NoIdx /\ ~g_far
    /\ g_log = << <<"selection_cleared", NoIdx>> >>
    /\ overlay = NewOverlay

\* C20: get_text_range(a, b) equals get_text_range(b, a), and for indices inside
\* the page's characters it is the max(a,b) - min(a,b) + 1 characters from the
\* lower to the higher index, in index order.
C20_TextRangeNormalised ==
    LET a == text_call[1]
        b == text_call[2]
        text == text_call[3]
        lo == IF a <= b THEN a ELSE b
        hi == IF a <= b THEN b ELSE a
    IN a # NoIdx =>
        /\ text = GetTextRange(characters, b, a)
        /\ (a \in 0..(Len(characters) - 1) /\ b \in 0..(Len(characters) - 1)) =>
              /\ Len(text) = hi - lo + 1
              /\ \A k \in 1..Len(text) : text[k] = characters[lo + k]
\* get_text_range(10, 3) was called and returned the 8 characters of 3..10
C20_Witness ==
    /\ text_call[1] = 10 /\ text_call[2] = 3
    /\ Len(text_call[3]) = 8
    /\ text_call[3] = SubSeq(characters, 4, 11)

\* C21: select_word_at on a word character selects the longest run of glyphs
\* around it in which every glyph is a word character and every two neighbours
\* lie at most 4 apart horizontally (left edge minus the right edge before) and at
\* most 5 apart in their top edges; on another character it selects that glyph.
C21_WordRun ==
    [][\A i \in 0..(Len(characters) - 1) :
          SelectWordAt(0, i) =>
              LET Word(k) == IsWordChar(characters[k + 1])
                  Linked(k) ==
                      /\ Word(k) /\ Word(k + 1)
                      /\ bboxes[k + 2].left - (bboxes[k + 1].left + bboxes[k + 1].width) <= 4
                      /\ Abs(bboxes[k + 2].top - bboxes[k + 1].top) <= 5
                  Run == {j \in 0..(Len(characters) - 1) :
                             \A k \in Min(i, j)..(Max(i, j) - 1) : Linked(k)}
                  lo == CHOOSE j \in Run : \A h \in Run : j <= h
                  hi == CHOOSE j \in Run : \A h \in Run : j >= h
              IN selection' = IF Word(i)
                              THEN [active_page |-> 0, start_idx |-> lo, end_idx |-> hi]
                              ELSE [active_page |-> 0, start_idx |-> i, end_idx |-> i]]_vars
\* "catdog" with 6 units between t and d, select_word_at on a glyph of "dog":
\* glyphs 3..5 are selected and "dog" is the selection's text
C21_Witness ==
    /\ characters = CatDog /\ bboxes = CatDogBoxes
    /\ selection = [active_page |-> 0, start_idx |-> 3, end_idx |-> 5]
    /\ selection_text = <<"d", "o", "g">>

\* C22: a press at a screen point, taken to the document by the factor
\* 100 / displayZoom, hits a glyph whose box contains the document point if there
\* is one; otherwise it hits a glyph whose centre is nearest to the pointer if that
\* centre is nearer than 15 screen pixels, and no glyph if it is farther than 15
\* screen pixels, at every zoom.  (At exactly 15 pixels no glyph is hit.)
C22_HitTest ==
    [][\A pos \in HitPoints :
          MousePress(pos, "left") =>
              LET z == display_zoom
                  hit == g_glyph'
                  \* 100 * z times the document point, and the box's edges alike
                  In(i) ==
                      /\ 100 * z * bboxes[i].left <= 10000 * pos[1]
                      /\ 10000 * pos[1] <= 100 * z * (bboxes[i].left + bboxes[i].width)
                      /\ 100 * z * bboxes[i].top <= 10000 * pos[2]
                      /\ 10000 * pos[2] <= 100 * z * (bboxes[i].top + bboxes[i].height)
                  \* 200 times the pointer's distance on the screen, in x and in y, from
                  \* the centre of the box as shown at zoom z
                  Dx(i) == 200 * pos[1] - z * (2 * bboxes[i].left + bboxes[i].width)
                  Dy(i) == 200 * pos[2] - z * (2 * bboxes[i].top + bboxes[i].height)
                  Far(i) == Dx(i) * Dx(i) + Dy(i) * Dy(i)
                  glyphs == 1..Len(bboxes)
                  Nearest(i) == \A j \in glyphs : Far(i) <= Far(j)
              IN IF \E i \in glyphs : In(i)
                 THEN hit # NoIdx /\ In(hit + 1)
                 ELSE /\ (\E i \in glyphs : Far(i) < 3000 * 3000) =>
                            hit # NoIdx /\ Nearest(hit + 1)
                      /\ (\A i \in glyphs : Far(i) > 3000 * 3000) => hit = NoIdx]_vars
\* at zoom 200 a press 11 pixels right of the centre of glyph 0, outside its box,
\* hit glyph 0
C22_Witness ==
    /\ display_zoom = 200 /\ overlay.display_zoom = 200
    /\ g_open /\ g_pos = <<35, 25>> /\ g_glyph = 0
    /\ ~Contains(bboxes[1], 200, g_pos)

\* C23 (as claimed): a Ctrl+wheel step at scroll value s with the cursor c below
\* the top of the viewport, taking the zoom from oldZoom to the clamped level
\* newZoom, asks for the scroll value (s + c) * newZoom / oldZoom - c, as far as
\* that is a whole number of pixels (its integral part).
C23_AnchoredScroll ==
    [][\A delta \in WheelDeltas, c \in CursorYs :
          HandleScrollZoom(delta, c) =>
              LET s == scroll
                  oldZoom == zoom_level
                  newZoom == zoom_level'
                  asked == scroll_tasks'[Len(scroll_tasks')].new_scroll
                  \* oldZoom times the value of the formula
                  value == (s + c) * newZoom - c * oldZoom
              IN asked = IF value >= 0 THEN value \div oldZoom
                         ELSE -((-value) \div oldZoom)]_vars

\* C26 (as claimed): when the deferred scroll of a Ctrl+wheel step is applied
\* (inside the bar's range, the zoom being the one the latest wheel step set), the
\* document point under the cursor is the one that was under it before that step,
\* to within one screen pixel.
C26_PointStaysUnderCursor ==
    [][(/\ DeferredScroll
        /\ Head(scroll_tasks).new_scroll \in 0..ScrollMaximum
        /\ zoom_level = scroll_tasks[Len(scroll_tasks)].new_zoom) =>
           LET step == Head(scroll_tasks)
               \* document y under the cursor is (scroll + cursor_y) * 100 / zoom:
               \* the two, each over 100 and times both zoom levels
               before == (step.old_scroll + step.cursor_y) * zoom_level'
               after == (scroll' + step.cursor_y) * step.old_zoom
           IN Abs(after - before) <= step.old_zoom]_vars

\* C24: update_selection changes the end index only: the active page and the
\* start index stay as start_selection set them, so the selection stays on the
\* page it was started on.
C24_PageFixed ==
    [][\A char_index \in 0..SelectMax :
          SelectionUpdated(char_index) =>
              /\ selection'.active_page = selection.active_page
              /\ selection'.start_idx = selection.start_idx
              /\ selection.start_idx # NoIdx => selection'.end_idx = char_index]_vars
\* a selection started on page 1 at glyph 2 and updated to glyph 0
C24_Witness ==
    /\ selection = [active_page |-> 1, start_idx |-> 2, end_idx |-> 0]

\* C25 (as claimed): while the render window of the scroll position holds at most
\* MAX_CACHED_PAGES pages, a page of that window that holds an image still holds
\* it after a render result has become some page's image.
C25_WindowStaysCached ==
    [][\A k \in 1..Len(jobs) :
          LET window == {i \in (visible[1] - LOOKAHEAD_PAGES)..(visible[2] + LOOKAHEAD_PAGES) :
                            0 <= i /\ i <= total_pages - 1}
          IN (RenderDone(k) /\ Cardinality(window) <= MAX_CACHED_PAGES) =>
                 \A p \in window : pages[p].is_loaded => pages'[p].is_loaded]_vars

\* C27 (as claimed): after a call of set_zoom (zoom_in, zoom_out, set_preset and
\* reset_zoom are calls of it) the zoom mode is manual, whatever the mode and the
\* level were before the call.
C27_ManualAfterSetZoom ==
    zoom_call \in {"preview", "immediate"} => zoom_mode = "manual"

\* C28 (as claimed): after set_preset or reset_zoom returned, the commit event of
\* the level the view model holds has been emitted (the viewer's committed zoom
\* is that level and no preview is left uncommitted) and the debounce timer is
\* stopped.
C28_CommitsImmediately ==
    zoom_call = "immediate" =>
        /\ timer_left = -1
        /\ ~uncommitted
        /\ committed_zoom = zoom_level

\* C29: handling a zoom preview event (set_zoom without immediate commit changed
\* the level) gives every page the new display zoom and nothing else: no
\* request_page task is created or cancelled, no recompute is scheduled, no page
\* loses its image or changes its rendered zoom, and the cache keeps its pages in
\* their order.
C29_PreviewOnlyRescales ==
    [][\A l \in SchedLevels :
          (SetZoom(l, FALSE) /\ zoom_level' # zoom_level) =>
              /\ display_zoom' = l
              /\ pages' = [i \in DOMAIN pages |-> [pages[i] EXCEPT !.display_zoom = l]]
              /\ jobs' = jobs
              /\ check_scheduled' = check_scheduled
              /\ loaded_pages' = loaded_pages
              /\ committed_zoom' = committed_zoom]_vars
\* a preview of 110 was handled while a page held an image rendered at 100 and a
\* render was under way
C29_Witness ==
    /\ zoom_call = "preview" /\ uncommitted /\ display_zoom = 110
    /\ \E i \in DOMAIN pages :
          /\ pages[i].is_loaded /\ pages[i].render_zoom = 100
          /\ pages[i].display_zoom = 110
    /\ loaded_pages # <<>>
    /\ \E k \in 1..Len(jobs) : jobs[k].st = "run"

\* C30 (as claimed): a recompute of the render window cancels exactly the renders
\* under way for pages outside the new window: a render submitted to the executor
\* that has not ended is cancelled by the recompute if and only if its page lies
\* outside the window.
C30_RecomputeCancels ==
    [][\A a \in CancelStops :
          Scroll(a, a) =>
              \A k \in 1..Len(jobs) :
                  jobs[k].st = "run" =>
                      (jobs'[k].st = "canc"
                          <=> jobs[k].page \notin NewRenderRange(a, a, total_pages))]_vars

\* C31: a selection_updated of a gesture comes after the gesture's
\* selection_started; a gesture whose press hit no glyph emits neither; a move
\* handled while the overlay is dragging emits one selection_updated with the
\* glyph under the pointer, and nothing if there is no glyph under it.
C31_UpdatesWhileDragging ==
    [][/\ \A k \in 1..Len(g_log') :
             g_log'[k][1] = "selection_updated" =>
                 \E j \in 1..(k - 1) : g_log'[j][1] = "selection_started"
       /\ g_glyph' = NoIdx =>
             \A k \in 1..Len(g_log') :
                 g_log'[k][1] \notin {"selection_started", "selection_updated"}
       /\ \A pos \in Points :
             (MouseMove(pos) /\ overlay.is_dragging /\ left_down) =>
                 g_log' = IF GlyphAt(pos) # NoIdx
                          THEN Append(g_log, <<"selection_updated", GlyphAt(pos)>>)
                          ELSE g_log]_vars
\* a press on glyph 0, a move beyond the drag distance and a move over glyph 2
C31_Witness ==
    /\ overlay.is_dragging /\ left_down /\ g_glyph = 0
    /\ Len(g_log) = 3
    /\ g_log[2] = <<"selection_started", 0>>
    /\ g_log[3] = <<"selection_updated", 2>>

\* C32 (as claimed): close cancels every render task that was started and has
\* not finished, without waiting for any of them.
C32_CloseCancelsAll ==
    [][Close => \A k \in 1..Len(jobs) : jobs[k].st = "run" => jobs'[k].st = "canc"]_vars

\* the repair as claimed: a hyphen, a line break and a lowercase letter become the
\* letter, everything else stays
LowercaseLetters ==
    {"a", "b", "c", "d", "e", "f", "g", "h", "i", "j", "k", "l", "m",
     "n", "o", "p", "q", "r", "s", "t", "u", "v", "w", "x", "y", "z"}

RECURSIVE RepairedLowercase(_)
RepairedLowercase(text) ==
    IF text = <<>> THEN <<>>
    ELSE IF Len(text) >= 3 /\ text[1] = "-" /\ text[2] = "\n" /\ text[3] \in LowercaseLetters
         THEN <<text[3]>> \o RepairedLowercase(SubSeq(text, 4, Len(text)))
         ELSE <<text[1]>> \o RepairedLowercase(Tail(text))

\* C33 (as claimed): the text of a selection_changed signal is the extracted text
\* with every hyphen + line break + lowercase letter replaced by the letter and
\* nothing else changed, and no selection operation changes the page's glyphs.
C33_HyphenRepair ==
    [][/\ characters' = characters
       /\ selection_text' = RepairedLowercase(text_call'[3])]_vars

\* C34 (as claimed): every render task that runs is registered in _active_tasks
\* under its page, and the end of a request_page call removes no entry but its
\* own task's.
C34_RunningRegistered ==
    \A k \in 1..Len(jobs) : jobs[k].st = "run" => jobs[k].reg

\* C35 (as claimed): if from some point on the pages in view and the zoom no
\* longer change, then eventually every page of the render window holds an image
\* rendered within RERENDER_TOLERANCE of the committed zoom.
C35_WindowEventuallyLoaded ==
    (<>[][visible' = visible /\ zoom_level' = zoom_level]_vars)
        => <>(/\ total_pages > 0
              /\ \A i \in NewRenderRange(visible[1], visible[2], total_pages) :
                    /\ pages[i].is_loaded
                    /\ Abs(pages[i].render_zoom - committed_zoom) <= RERENDER_TOLERANCE)

\* C36 (as claimed): the pages that hold an image are exactly the pages in the
\* cache's recency order.
C36_LoadedIffCached ==
    {i \in DOMAIN pages : pages[i].is_loaded} = Range(loaded_pages)

C38_RequestCarriesCommitted ==
    [][/\ Recompute =>
             \A k \in (Len(jobs) + 1)..Len(jobs') : jobs'[k].zoom = committed_zoom
       /\ \A k \in 1..Len(jobs) :
             RenderDone(k) =>
                 /\ pages'[jobs[k].page].is_loaded
                 /\ pages'[jobs[k].page].render_zoom = jobs[k].zoom
       /\ \A i \in DOMAIN pages \cap DOMAIN pages' :
             (/\ pages[i].is_loaded /\ pages'[i].is_loaded
              /\ pages'[i].render_zoom # pages[i].render_zoom) =>
                 \E k \in 1..Len(jobs) : RenderDone(k) /\ jobs[k].page = i]_vars
\* the page shows an image rendered at 100 and, while a preview of 110 is
\* displayed, a recompute has requested it again at 100, the committed zoom
C38_Witness ==
    /\ 0 \in DOMAIN pages /\ pages[0].is_loaded /\ pages[0].render_zoom = 100
    /\ display_zoom = 110 /\ committed_zoom = 100 /\ uncommitted
    /\ jobs = <<NewJob(0, 100)>>

\* C39: when a commit event is handled (the debounce timer expired, a fit mode
\* was set, or a preset changed the level) the last preview event carried the
\* committed level: the viewer and every page display that level, and a commit
\* of the debounce timer finds a preview emitted since the last commit.
C39_CommitAfterPreview ==
    [][(\/ DebounceTimeout
        \/ \E l \in SchedLevels : SetFitWidth(l)
        \/ \E l \in SchedLevels : SetPreset(l) /\ zoom_level' # zoom_level) =>
           /\ committed_zoom' = zoom_level'
           /\ display_zoom' = committed_zoom'
           /\ \A i \in DOMAIN pages' : pages'[i].display_zoom = committed_zoom'
           /\ DebounceTimeout => uncommitted /\ display_zoom = zoom_level]_vars
\* a commit of 110 was handled with a page that held an image rendered at 100:
\* the page displays 110 and lost its image
C39_Witness ==
    /\ committed_zoom = 110 /\ ~uncommitted /\ check_scheduled
    /\ 0 \in DOMAIN pages /\ pages[0].display_zoom = 110 /\ ~pages[0].is_loaded
    /\ loads = 1 /\ zoom_call = "preview" /\ timer_left = -1

\* C40: while no selection is active, update_selection leaves the selection as it
\* is and emits nothing; clear_selection resets active page, start and end and
\* emits selection_changed with the empty text, and get_selection_bboxes is then
\* empty for every page (and for no page).
C40_UpdateNeedsStart ==
    [][/\ selection'.start_idx = NoIdx =>
             \A char_index \in 0..SelectMax :
                 /\ UpdatedSelection(selection', char_index) = selection'
                 /\ ~EmitsSelection(UpdatedSelection(selection', char_index))
       /\ \A char_index \in 0..SelectMax :
             (SelectionUpdated(char_index) /\ selection.start_idx = NoIdx) =>
                 UNCHANGED <<selection, selection_text, text_call>>
       /\ EscapePressed =>
             /\ selection' = NoSelection
             /\ selection_text' = <<>>
             /\ \A page_index \in DOMAIN pages \cup {NoPage} :
                   GetSelectionBboxes(selection', page_index) = <<>>]_vars
\* a selection on page 0 had emitted its text and was then cleared
C40_Witness ==
    /\ loads = 1 /\ selection = NoSelection /\ selection_text = <<>>
    /\ text_call[1] # NoIdx /\ text_call[3] # <<>>

====
